---- MODULE Spec2Model ----
(***************************************************************************)
(* Burner Link server (src/server.js): the in-memory session store and    *)
(* its HTTP handlers, as a state machine.  Node runs each handler to      *)
(* completion on one thread, so every handler is one atomic action.  A    *)
(* handler is a function of the store, the request, the clock and the     *)
(* identifier createId() returns; it yields the HTTP response and the     *)
(* store it leaves.  The usage counters (metrics) are written by create   *)
(* and join and read by no handler of the store; they are not part of     *)
(* the state here.                                                        *)
(***************************************************************************)
EXTENDS Integers, Sequences, FiniteSets, TLC

(***************************************************************************)
(* Bounds of the model.                                                    *)
(***************************************************************************)
\* sessions created in one run
MaxSessions == 1
\* messages held by the store
MaxMsgs == 1
\* the clock's horizon, in ms
MaxNow == 20001
\* messages held by the store in the image-quota runs
MaxImages == 5
\* messages held by the store in the runs about one session's thread
MaxThread == 2
\* sessions created in one run, in the runs about sessions that share a code
MaxShared == 2
\* messages held by the store in those runs
MaxSharedMsgs == 0

(***************************************************************************)
(* Program constants and request inputs.                                   *)
(***************************************************************************)
OFFLINE_TIMEOUT_MS == 20000

\* Values the specification states; src/server.js defines none of them.
FREE_SESSION_MS == 600000
DAY_MS == 86400000
FREE_IMAGE_QUOTA == 5

\* A code is the sequence of its characters; "" is the empty sequence.
Digits == {"0", "1", "2", "3", "4", "5", "6", "7", "8", "9"}
CodeA == <<"1", "2", "3", "4", "5", "6">>
CodeC == <<"1", "2", "3", "4", "5", "a">>
CodeInputs == {CodeA, <<>>, CodeC}

\* deviceId strings; "" is the missing (falsy) deviceId
Devices == {"dev1", "dev2", "dev3"}
DeviceInputs == Devices \cup {""}
\* senderId and type of a message; "" is a missing senderId
SenderInputs == {"dev1", ""}
TypeInputs == {"image", "video"}
GoodPayload == [ciphertext |-> "c", nonce |-> "n"]
PayloadInputs == {GoodPayload, [ciphertext |-> "c", nonce |-> ""]}
FileInputs == {""}
\* JSON null
Null == "<null>"

\* a sessionId no createId() call has returned
UnknownId == 0
\* the sessionId of a request that carries none
MissingId == -1

\* how far the wall clock moves between two requests
TickSteps == {OFFLINE_TIMEOUT_MS, OFFLINE_TIMEOUT_MS + 1}

VARIABLES
    sessions,   \* the store: sessionId -> session, in creation order
    nextId,     \* the next identifier createId() returns
    now         \* Date.now()

vars == <<sessions, nextId, now>>

(***************************************************************************)
(* Helpers.                                                                *)
(***************************************************************************)
\* /^\d{6}$/.test(code)
IsSixDigits(code) == Len(code) = 6 /\ \A i \in 1..Len(code) : code[i] \in Digits

\* what a handler yields: the response's status and body, and the store
Result(status, body, store) == [status |-> status, body |-> body, store |-> store]

Error(msg) == [error |-> msg]

\* Object.entries(store).find(...): the first session, in insertion order,
\* with this code that is active; UnknownId when there is none.  createId()
\* hands out increasing ids here, so insertion order is id order.
FindByCodeAnyState(store, code) ==
    LET matches == {id \in DOMAIN store : store[id].code = code}
    IN  IF matches = {} THEN UnknownId
        ELSE CHOOSE id \in matches : \A other \in matches : id <= other

\* (the most recently created match taken, not the first)
FindByCodeLatest(store, code) ==
    LET matches == {id \in DOMAIN store : store[id].code = code /\ store[id].active}
    IN  IF matches = {} THEN UnknownId
        ELSE CHOOSE id \in matches : \A other \in matches : id >= other

FindByCode(store, code) ==
    LET matches == {id \in DOMAIN store : store[id].code = code /\ store[id].active}
    IN  IF matches = {} THEN UnknownId
        ELSE CHOOSE id \in matches : \A other \in matches : id <= other

\* entries.find(([id, ts]) => id !== deviceId && now - ts > OFFLINE_TIMEOUT_MS)
HasStaleReversed(lastSeen, deviceId, t) ==
    \E id \in DOMAIN lastSeen :
        id # deviceId /\ lastSeen[id] - t > OFFLINE_TIMEOUT_MS

\* (a device last seen exactly the timeout ago counted as stale)
HasStaleAtTimeout(lastSeen, deviceId, t) ==
    \E id \in DOMAIN lastSeen :
        id # deviceId /\ t - lastSeen[id] >= OFFLINE_TIMEOUT_MS

HasStale(lastSeen, deviceId, t) ==
    \E id \in DOMAIN lastSeen :
        id # deviceId /\ t - lastSeen[id] > OFFLINE_TIMEOUT_MS

\* the three assignments of POST /sessions/end that burn a session
Burn(session) ==
    [session EXCEPT !.active = FALSE, !.messages = <<>>, !.participants = {}]

\* the same three assignments in POST /sessions/heartbeat
BurnStaleKeepsMessages(session) ==
    [session EXCEPT !.active = FALSE, !.participants = {}]

BurnStale(session) ==
    [session EXCEPT !.active = FALSE, !.messages = <<>>, !.participants = {}]

\* session.participants.size >= 2
IsFullOffByOne(session) == Cardinality(session.participants) > 2

IsFull(session) == Cardinality(session.participants) >= 2

\* session.lastSeen[deviceId] = t
\* (the device's time of last contact not written)
SeenNotRecorded(lastSeen, deviceId, t) == lastSeen

Seen(lastSeen, deviceId, t) ==
    [d \in DOMAIN lastSeen \cup {deviceId} |->
        IF d = deviceId THEN t ELSE lastSeen[d]]

(***************************************************************************)
(* POST /sessions/create                                                   *)
(***************************************************************************)
\* (one session per code: an active session with the code is overwritten)
createSessionPerCode(store, code, deviceId, t, id) ==
    IF code = <<>> THEN
        Result(400, Error("Missing or invalid code"), store)
    ELSE IF ~IsSixDigits(code) THEN
        Result(400, Error("Code must be a 6-digit number"), store)
    ELSE IF deviceId = "" THEN
        Result(400, Error("Missing or invalid deviceId"), store)
    ELSE
        LET sessionId == IF FindByCode(store, code) # UnknownId
                         THEN FindByCode(store, code) ELSE id
            session == [code |-> code,
                        active |-> TRUE,
                        messages |-> <<>>,
                        participants |-> {deviceId},
                        lastSeen |-> (deviceId :> t)]
        IN  Result(201, [id |-> sessionId],
                   [s \in DOMAIN store \cup {sessionId} |->
                       IF s = sessionId THEN session ELSE store[s]])

createSession(store, code, deviceId, t, id) ==
    IF code = <<>> THEN
        Result(400, Error("Missing or invalid code"), store)
    ELSE IF ~IsSixDigits(code) THEN
        Result(400, Error("Code must be a 6-digit number"), store)
    ELSE IF deviceId = "" THEN
        Result(400, Error("Missing or invalid deviceId"), store)
    ELSE
        Result(201, [id |-> id],
               store @@ (id :> [code |-> code,
                                active |-> TRUE,
                                messages |-> <<>>,
                                participants |-> {deviceId},
                                lastSeen |-> (deviceId :> t)]))

(***************************************************************************)
(* POST /sessions/join                                                     *)
(***************************************************************************)
\* (the capacity check made before the reconnect check)
joinSessionCapacityFirst(store, code, deviceId, t) ==
    LET sessionId == FindByCode(store, code)
        session == store[sessionId]
    IN
    IF code = <<>> THEN
        Result(400, Error("Missing or invalid code"), store)
    ELSE IF deviceId = "" THEN
        Result(400, Error("Missing or invalid deviceId"), store)
    ELSE IF sessionId = UnknownId THEN
        Result(404, Error("Session not found or inactive"), store)
    ELSE IF IsFull(session) THEN
        Result(403, Error("Session already has two devices connected."), store)
    ELSE IF deviceId \in session.participants THEN
        Result(200, [id |-> sessionId], store)
    ELSE
        Result(200, [id |-> sessionId],
               [store EXCEPT ![sessionId] =
                   [session EXCEPT
                       !.participants = @ \cup {deviceId},
                       !.lastSeen = Seen(@, deviceId, t)]])

joinSession(store, code, deviceId, t) ==
    LET sessionId == FindByCode(store, code)
        session == store[sessionId]
    IN
    IF code = <<>> THEN
        Result(400, Error("Missing or invalid code"), store)
    ELSE IF deviceId = "" THEN
        Result(400, Error("Missing or invalid deviceId"), store)
    ELSE IF sessionId = UnknownId THEN
        Result(404, Error("Session not found or inactive"), store)
    ELSE IF deviceId \in session.participants THEN
        Result(200, [id |-> sessionId], store)
    ELSE IF IsFull(session) THEN
        Result(403, Error("Session already has two devices connected."), store)
    ELSE
        Result(200, [id |-> sessionId],
               [store EXCEPT ![sessionId] =
                   [session EXCEPT
                       !.participants = @ \cup {deviceId},
                       !.lastSeen = Seen(@, deviceId, t)]])

(***************************************************************************)
(* POST /sessions/end                                                      *)
(***************************************************************************)
\* (an inactive session treated as unknown)
endSessionOnceOnly(store, sessionId) ==
    IF sessionId \notin DOMAIN store \/ ~store[sessionId].active THEN
        Result(404, Error("Session not found"), store)
    ELSE
        Result(200, [ok |-> TRUE], [store EXCEPT ![sessionId] = Burn(@)])

\* (ending a session ends every session that has its code)
endSessionByCode(store, sessionId) ==
    IF sessionId \notin DOMAIN store THEN
        Result(404, Error("Session not found"), store)
    ELSE
        Result(200, [ok |-> TRUE],
               [id \in DOMAIN store |->
                   IF store[id].code = store[sessionId].code
                   THEN Burn(store[id]) ELSE store[id]])

endSession(store, sessionId) ==
    IF sessionId \notin DOMAIN store THEN
        Result(404, Error("Session not found"), store)
    ELSE
        Result(200, [ok |-> TRUE], [store EXCEPT ![sessionId] = Burn(@)])

(***************************************************************************)
(* GET /sessions/status/:sessionId                                         *)
(***************************************************************************)
status(store, sessionId) ==
    IF sessionId \notin DOMAIN store THEN
        Result(404, [active |-> FALSE, participants |-> 0], store)
    ELSE
        Result(200, [active |-> store[sessionId].active,
                     participants |-> Cardinality(store[sessionId].participants)],
               store)

(***************************************************************************)
(* POST /sessions/heartbeat                                                *)
(***************************************************************************)
\* (the record of the device written before the session is looked at)
heartbeatOfAnySession(store, sessionId, deviceId, t) ==
    IF sessionId = MissingId THEN
        Result(400, Error("Missing or invalid sessionId"), store)
    ELSE IF deviceId = "" THEN
        Result(400, Error("Missing or invalid deviceId"), store)
    ELSE IF sessionId \notin DOMAIN store THEN
        Result(404, Error("Session not found or inactive"), store)
    ELSE
        LET seen == [store[sessionId] EXCEPT
                        !.participants = @ \cup {deviceId},
                        !.lastSeen = Seen(@, deviceId, t)]
        IN
        IF ~store[sessionId].active THEN
            Result(404, Error("Session not found or inactive"),
                   [store EXCEPT ![sessionId] = seen])
        ELSE IF /\ Cardinality(DOMAIN seen.lastSeen) >= 2
                /\ HasStale(seen.lastSeen, deviceId, t)
        THEN Result(200, [ok |-> TRUE, ended |-> TRUE],
                    [store EXCEPT ![sessionId] = BurnStale(seen)])
        ELSE Result(200, [ok |-> TRUE, ended |-> FALSE],
                    [store EXCEPT ![sessionId] = seen])

\* (the capacity check of join applied to a heartbeat as well)
heartbeatChecksCapacity(store, sessionId, deviceId, t) ==
    IF sessionId = MissingId THEN
        Result(400, Error("Missing or invalid sessionId"), store)
    ELSE IF deviceId = "" THEN
        Result(400, Error("Missing or invalid deviceId"), store)
    ELSE IF sessionId \notin DOMAIN store \/ ~store[sessionId].active THEN
        Result(404, Error("Session not found or inactive"), store)
    ELSE IF deviceId \notin store[sessionId].participants
            /\ IsFull(store[sessionId]) THEN
        Result(403, Error("Session already has two devices connected."), store)
    ELSE
        LET seen == [store[sessionId] EXCEPT
                        !.participants = @ \cup {deviceId},
                        !.lastSeen = Seen(@, deviceId, t)]
        IN
        IF /\ Cardinality(DOMAIN seen.lastSeen) >= 2
           /\ HasStale(seen.lastSeen, deviceId, t)
        THEN Result(200, [ok |-> TRUE, ended |-> TRUE],
                    [store EXCEPT ![sessionId] = BurnStale(seen)])
        ELSE Result(200, [ok |-> TRUE, ended |-> FALSE],
                    [store EXCEPT ![sessionId] = seen])

heartbeat(store, sessionId, deviceId, t) ==
    IF sessionId = MissingId THEN
        Result(400, Error("Missing or invalid sessionId"), store)
    ELSE IF deviceId = "" THEN
        Result(400, Error("Missing or invalid deviceId"), store)
    ELSE IF sessionId \notin DOMAIN store \/ ~store[sessionId].active THEN
        Result(404, Error("Session not found or inactive"), store)
    ELSE
        LET seen == [store[sessionId] EXCEPT
                        !.participants = @ \cup {deviceId},
                        !.lastSeen = Seen(@, deviceId, t)]
        IN
        IF /\ Cardinality(DOMAIN seen.lastSeen) >= 2
           /\ HasStale(seen.lastSeen, deviceId, t)
        THEN Result(200, [ok |-> TRUE, ended |-> TRUE],
                    [store EXCEPT ![sessionId] = BurnStale(seen)])
        ELSE Result(200, [ok |-> TRUE, ended |-> FALSE],
                    [store EXCEPT ![sessionId] = seen])

(***************************************************************************)
(* GET /messages/:sessionId                                                *)
(***************************************************************************)
\* (the active flag not checked)
listMessagesOfAnySession(store, sessionId) ==
    IF sessionId \notin DOMAIN store THEN
        Result(404, Error("Session not found or inactive"), store)
    ELSE
        Result(200, store[sessionId].messages, store)

listMessages(store, sessionId) ==
    IF sessionId \notin DOMAIN store \/ ~store[sessionId].active THEN
        Result(404, Error("Session not found or inactive"), store)
    ELSE
        Result(200, store[sessionId].messages, store)

(***************************************************************************)
(* POST /messages                                                          *)
(***************************************************************************)
\* (a post accepted from the session's participants only)
postMessageMembersOnly(store, sessionId, senderId, type, encrypted, fileName, id) ==
    IF sessionId \notin DOMAIN store \/ ~store[sessionId].active THEN
        Result(404, Error("Session not found or inactive"), store)
    ELSE IF senderId \notin store[sessionId].participants THEN
        Result(403, Error("Not a participant of this session"), store)
    ELSE IF encrypted.ciphertext = "" \/ encrypted.nonce = "" THEN
        Result(400, Error("Missing encrypted payload"), store)
    ELSE
        LET msg == [id |-> id,
                    senderId |-> IF senderId = "" THEN "unknown" ELSE senderId,
                    type |-> IF type = "image" THEN "image" ELSE "text",
                    encrypted |-> encrypted,
                    fileName |-> IF fileName = "" THEN Null ELSE fileName]
        IN  Result(201, msg, [store EXCEPT ![sessionId].messages = Append(@, msg)])

\* (the message put at the front of the thread: unshift for push)
postMessageAtFront(store, sessionId, senderId, type, encrypted, fileName, id) ==
    IF sessionId \notin DOMAIN store \/ ~store[sessionId].active THEN
        Result(404, Error("Session not found or inactive"), store)
    ELSE IF encrypted.ciphertext = "" \/ encrypted.nonce = "" THEN
        Result(400, Error("Missing encrypted payload"), store)
    ELSE
        LET msg == [id |-> id,
                    senderId |-> IF senderId = "" THEN "unknown" ELSE senderId,
                    type |-> IF type = "image" THEN "image" ELSE "text",
                    encrypted |-> encrypted,
                    fileName |-> IF fileName = "" THEN Null ELSE fileName]
        IN  Result(201, msg, [store EXCEPT ![sessionId].messages = <<msg>> \o @])

postMessage(store, sessionId, senderId, type, encrypted, fileName, id) ==
    IF sessionId \notin DOMAIN store \/ ~store[sessionId].active THEN
        Result(404, Error("Session not found or inactive"), store)
    ELSE IF encrypted.ciphertext = "" \/ encrypted.nonce = "" THEN
        Result(400, Error("Missing encrypted payload"), store)
    ELSE
        LET msg == [id |-> id,
                    senderId |-> IF senderId = "" THEN "unknown" ELSE senderId,
                    type |-> IF type = "image" THEN "image" ELSE "text",
                    encrypted |-> encrypted,
                    fileName |-> IF fileName = "" THEN Null ELSE fileName]
        IN  Result(201, msg, [store EXCEPT ![sessionId].messages = Append(@, msg)])

\* GET /metrics/stats: activeSessions
activeSessions(store) == Cardinality({id \in DOMAIN store : store[id].active})

(***************************************************************************)
(* Initial state: the server has just started.                             *)
(***************************************************************************)
Init ==
    /\ sessions = <<>>
    /\ nextId = 1
    /\ now = 0

(***************************************************************************)
(* One action per request.  A handler that calls createId() on its way to  *)
(* a 201 uses up the identifier.                                           *)
(***************************************************************************)
Create(code, deviceId) ==
    LET r == createSession(sessions, code, deviceId, now, nextId) IN
    /\ sessions' = r.store
    /\ nextId' = IF r.status = 201 THEN nextId + 1 ELSE nextId
    /\ UNCHANGED now

Join(code, deviceId) ==
    /\ sessions' = joinSession(sessions, code, deviceId, now).store
    /\ UNCHANGED <<nextId, now>>

End(sessionId) ==
    /\ sessions' = endSession(sessions, sessionId).store
    /\ UNCHANGED <<nextId, now>>

GetStatus(sessionId) ==
    /\ sessions' = status(sessions, sessionId).store
    /\ UNCHANGED <<nextId, now>>

Beat(sessionId, deviceId) ==
    /\ sessions' = heartbeat(sessions, sessionId, deviceId, now).store
    /\ UNCHANGED <<nextId, now>>

List(sessionId) ==
    /\ sessions' = listMessages(sessions, sessionId).store
    /\ UNCHANGED <<nextId, now>>

Post(sessionId, senderId, type, encrypted, fileName) ==
    LET r == postMessage(sessions, sessionId, senderId, type, encrypted,
                         fileName, nextId)
    IN
    /\ sessions' = r.store
    /\ nextId' = IF r.status = 201 THEN nextId + 1 ELSE nextId
    /\ UNCHANGED now

\* (a sweeper that burns, as the clock moves, every session with a device last
\* seen more than the offline timeout ago)
TickSweeps(step, horizon) ==
    /\ now + step <= horizon
    /\ now' = now + step
    /\ sessions' =
          [id \in DOMAIN sessions |->
              IF /\ sessions[id].active
                 /\ HasStale(sessions[id].lastSeen, "", now + step)
              THEN BurnStale(sessions[id])
              ELSE sessions[id]]
    /\ UNCHANGED nextId

\* the wall clock moves between two requests
Tick(step, horizon) ==
    /\ now + step <= horizon
    /\ now' = now + step
    /\ UNCHANGED <<sessions, nextId>>

(***************************************************************************)
(* Requests: the sessionIds a client can send, and the requests the        *)
(* bounds let through.                                                     *)
(***************************************************************************)
SessionIdInputs == DOMAIN sessions \cup {UnknownId, MissingId}

\* a create that stores a session needs room for it
CreateFits(code, deviceId, max) ==
    createSession(sessions, code, deviceId, now, nextId).status = 201
        => Cardinality(DOMAIN sessions) < max

\* the messages the store holds, each named by its session and position
Slots(store) ==
    UNION {{<<id, i>> : i \in DOMAIN store[id].messages} : id \in DOMAIN store}

\* a post that stores a message needs room for it
PostFits(sessionId, encrypted, max) ==
    postMessage(sessions, sessionId, "", "", encrypted, "", nextId).status = 201
        => Cardinality(Slots(sessions)) < max

NextOver(codes, devices, senders, maxSessions, maxMsgs, steps, horizon) ==
    \/ \E code \in codes, deviceId \in devices :
          CreateFits(code, deviceId, maxSessions) /\ Create(code, deviceId)
    \/ \E code \in codes, deviceId \in devices : Join(code, deviceId)
    \/ \E sessionId \in SessionIdInputs : End(sessionId)
    \/ \E sessionId \in SessionIdInputs : GetStatus(sessionId)
    \/ \E sessionId \in SessionIdInputs, deviceId \in devices :
          Beat(sessionId, deviceId)
    \/ \E sessionId \in SessionIdInputs : List(sessionId)
    \/ \E sessionId \in SessionIdInputs, senderId \in senders,
          type \in TypeInputs, encrypted \in PayloadInputs,
          fileName \in FileInputs :
          /\ PostFits(sessionId, encrypted, maxMsgs)
          /\ Post(sessionId, senderId, type, encrypted, fileName)
    \/ \E step \in steps : Tick(step, horizon)

\* every request of three devices, over the timescale of the offline timeout
Next ==
    NextOver(CodeInputs, DeviceInputs, {"dev1"}, MaxSessions, MaxMsgs,
             TickSteps, MaxNow)

Spec == Init /\ [][Next]_vars

\* two devices, over the timescale of the free-tier session lifetime
NextExpiry ==
    NextOver({CodeA}, {"dev1", "dev2"}, SenderInputs, MaxSessions, MaxMsgs,
             {FREE_SESSION_MS, FREE_SESSION_MS + 1}, FREE_SESSION_MS + 1)

SpecExpiry == Init /\ [][NextExpiry]_vars

\* two devices, one of which posts, over the timescale of the daily image quota
NextQuota ==
    NextOver({CodeA}, {"dev1", "dev2"}, {"dev1"}, MaxSessions, MaxImages,
             {DAY_MS, DAY_MS + 1}, DAY_MS + 1)

SpecQuota == Init /\ [][NextQuota]_vars

\* two devices and a thread of several messages, over one step of the clock
\* that makes a device stale
NextThread ==
    NextOver({CodeA}, {"dev1", "dev2"}, {"dev1"}, MaxSessions, MaxThread,
             {OFFLINE_TIMEOUT_MS + 1}, OFFLINE_TIMEOUT_MS + 1)

SpecThread == Init /\ [][NextThread]_vars

\* two devices and several sessions under one code, over one step of the
\* clock that makes a device stale
NextShared ==
    NextOver({CodeA}, {"dev1", "dev2"}, {"dev1"}, MaxShared, MaxSharedMsgs,
             {OFFLINE_TIMEOUT_MS + 1}, OFFLINE_TIMEOUT_MS + 1)

SpecShared == Init /\ [][NextShared]_vars

(***************************************************************************)
(* Properties.                                                             *)
(***************************************************************************)
\* the identifiers handed out so far are all still in the store
NothingBurned ==
    nextId - 1 = Cardinality(DOMAIN sessions) + Cardinality(Slots(sessions))

\* C1: every session's participants set has at most 2 members, in every
\* reachable state.
C1_AtMostTwoParticipants ==
    \A id \in DOMAIN sessions : Cardinality(sessions[id].participants) <= 2

\* C2: a session that is not active has no participants and no messages, in
\* every reachable state (whatever the order of post, end and heartbeat).
C2_InactiveIsEmpty ==
    \A id \in DOMAIN sessions :
        ~sessions[id].active =>
            sessions[id].participants = {} /\ sessions[id].messages = <<>>

\* an inactive session that two devices were seen in, after a message of the
\* store was burned
C2_Witness ==
    /\ ~NothingBurned
    /\ \E id \in DOMAIN sessions :
          ~sessions[id].active /\ Cardinality(DOMAIN sessions[id].lastSeen) >= 2

\* C3: once endSession(S) has succeeded, listMessages(S) fails with NotFound
\* in every later state: ending a session leaves a store in which its
\* listing is a 404, and no step takes a session whose listing is a 404 to a
\* store in which it is not.
C3_EndedNeverLists ==
    /\ [](\A S \in DOMAIN sessions :
            LET r == endSession(sessions, S) IN
            r.status = 200 /\ listMessages(r.store, S).status = 404)
    /\ [][\A S \in DOMAIN sessions :
            listMessages(sessions, S).status = 404
                => listMessages(sessions', S).status = 404]_vars

\* a session only its creator was seen in (so no heartbeat burned it: it was
\* ended) is inactive, a message it held is gone, the clock has moved on, and
\* its listing is a 404
C3_Witness ==
    \E S \in DOMAIN sessions :
        /\ ~sessions[S].active
        /\ Cardinality(DOMAIN sessions[S].lastSeen) = 1
        /\ ~NothingBurned
        /\ now > 0
        /\ listMessages(sessions, S).status = 404

\* device B of session S was last seen more than the offline timeout ago
StaleFor(S, A) ==
    /\ sessions[S].active
    /\ \E B \in DOMAIN sessions[S].lastSeen :
          B # A /\ now - sessions[S].lastSeen[B] > OFFLINE_TIMEOUT_MS

\* C4: a heartbeat(S, A) on an active session in which another device was
\* last seen more than 20 s ago answers ended=true and leaves S inactive
\* with no participants and no messages; and the status of a session that is
\* inactive is {active: false, participants: 0} in every later state.
C4_StaleHeartbeatBurns ==
    /\ [](\A S \in DOMAIN sessions, A \in Devices :
            StaleFor(S, A) =>
                LET r == heartbeat(sessions, S, A, now) IN
                /\ r.status = 200
                /\ r.body = [ok |-> TRUE, ended |-> TRUE]
                /\ ~r.store[S].active
                /\ r.store[S].participants = {}
                /\ r.store[S].messages = <<>>
                /\ status(r.store, S).body = [active |-> FALSE, participants |-> 0])
    /\ [][\A S \in DOMAIN sessions :
            ~sessions[S].active =>
                status(sessions', S).body = [active |-> FALSE, participants |-> 0]]_vars

\* an active session that holds a message, with a device last seen more than
\* the offline timeout ago and another that can send the heartbeat
C4_Witness ==
    \E S \in DOMAIN sessions, A \in Devices :
        /\ StaleFor(S, A)
        /\ A \in sessions[S].participants
        /\ sessions[S].messages # <<>>
        /\ heartbeat(sessions, S, A, now).body.ended

\* the image messages of sender d that the store holds
ImagesBy(d) ==
    {slot \in Slots(sessions) :
        LET msg == sessions[slot[1]].messages[slot[2]]
        IN  msg.type = "image" /\ msg.senderId = d}

\* C5: a session created more than 10 minutes ago (so: with a device last
\* seen more than 10 minutes ago) is unreachable: listMessages and
\* postMessage on it, and a joinSession that resolves to it, fail with
\* NotFound.
C5_ExpiredIsUnreachable ==
    \A S \in DOMAIN sessions :
        (\E d \in DOMAIN sessions[S].lastSeen :
            now - sessions[S].lastSeen[d] > FREE_SESSION_MS)
        =>  /\ listMessages(sessions, S).status = 404
            /\ \A sender \in SenderInputs, type \in TypeInputs :
                  postMessage(sessions, S, sender, type, GoodPayload, "",
                              nextId).status = 404
            /\ \A d \in Devices :
                  FindByCode(sessions, sessions[S].code) = S
                    => joinSession(sessions, sessions[S].code, d, now).status = 404

\* C6: within the first 24 hours a device's image post on an active session
\* succeeds and is appended while the device has posted fewer than 5 images,
\* and fails with QuotaExceeded (403), appending nothing, once it has posted
\* 5.  (Every device is free-tier; every post at a time of at most 24 h is in
\* the device's first window.)
C6_ImageQuota ==
    \A S \in DOMAIN sessions, d \in Devices :
        sessions[S].active =>
            LET r == postMessage(sessions, S, d, "image", GoodPayload, "", nextId)
                posted == Cardinality(ImagesBy(d))
            IN
            /\ (NothingBurned /\ posted < FREE_IMAGE_QUOTA)
                  => /\ r.status = 201
                     /\ r.store[S].messages = Append(sessions[S].messages, r.body)
            /\ (now <= DAY_MS /\ posted >= FREE_IMAGE_QUOTA)
                  => /\ r.status = 403
                     /\ r.store = sessions

\* C7: joinSession(code, d), where the session the code resolves to has 2
\* participants and d is not one of them, fails with 403 and leaves the
\* store (so that session's participants, lastSeen, messages and active
\* flag) as it was.
C7_FullSessionRejectsThird ==
    \A code \in CodeInputs, d \in Devices :
        LET S == FindByCode(sessions, code)
            r == joinSession(sessions, code, d, now)
        IN  (/\ S # UnknownId
             /\ Cardinality(sessions[S].participants) = 2
             /\ d \notin sessions[S].participants)
            =>  /\ r.status = 403
                /\ r.store[S] = sessions[S]
                /\ r.store = sessions

\* a full session that holds a message, and a device outside it
C7_Witness ==
    \E d \in Devices :
        LET S == FindByCode(sessions, CodeA) IN
        /\ S # UnknownId
        /\ Cardinality(sessions[S].participants) = 2
        /\ d \notin sessions[S].participants
        /\ sessions[S].messages # <<>>
        /\ joinSession(sessions, CodeA, d, now).status = 403

\* C8: joinSession(code, d), where d is a participant of the session the
\* code resolves to, succeeds with that session's id, full or not, and leaves
\* the store as it was; a second identical join gives the same result and
\* the same store.
C8_RejoinIsIdempotent ==
    \A code \in CodeInputs, d \in Devices :
        LET S == FindByCode(sessions, code)
            r == joinSession(sessions, code, d, now)
        IN  (S # UnknownId /\ d \in sessions[S].participants)
            =>  /\ r.status = 200
                /\ r.body = [id |-> S]
                /\ r.store = sessions
                /\ joinSession(r.store, code, d, now) = r

\* a participant of a full session, last seen before the current time
C8_Witness ==
    \E d \in Devices :
        LET S == FindByCode(sessions, CodeA) IN
        /\ S # UnknownId
        /\ Cardinality(sessions[S].participants) >= 2
        /\ d \in sessions[S].participants
        /\ sessions[S].lastSeen[d] < now
        /\ joinSession(sessions, CodeA, d, now).status = 200

\* C9: burn is irreversible.  No step makes an inactive session active; a
\* join that succeeds returns the id of an active session; and a join whose
\* code matches no active session fails with 404 and changes nothing.
C9_BurnIsIrreversible ==
    /\ [](\A code \in CodeInputs \ {<<>>}, d \in Devices :
            LET r == joinSession(sessions, code, d, now) IN
            /\ r.status = 200 => sessions[r.body.id].active
            /\ (\A id \in DOMAIN sessions :
                    sessions[id].code = code => ~sessions[id].active)
                  => r.status = 404 /\ r.store = sessions)
    /\ [][\A S \in DOMAIN sessions :
            ~sessions[S].active => ~sessions'[S].active]_vars

\* the code of a session matches inactive sessions only
C9_Witness ==
    \E S \in DOMAIN sessions :
        /\ ~sessions[S].active
        /\ \A id \in DOMAIN sessions :
              sessions[id].code = sessions[S].code => ~sessions[id].active
        /\ joinSession(sessions, sessions[S].code, "dev2", now).status = 404

\* C10: endSession on an inactive session answers 200 {ok: true} and leaves
\* the store as it was; endSession twice gives the result and the store of
\* endSession once; endSession on an unknown sessionId answers 404 and
\* leaves the store as it was.
C10_EndIsIdempotent ==
    \A S \in SessionIdInputs :
        LET r == endSession(sessions, S) IN
        IF S \in DOMAIN sessions
        THEN /\ r.status = 200
             /\ r.body = [ok |-> TRUE]
             /\ ~sessions[S].active => r.store = sessions
             /\ endSession(r.store, S) = r
        ELSE /\ r.status = 404
             /\ r.store = sessions

\* an inactive session that every device was seen in, ended once more
C10_Witness ==
    \E S \in DOMAIN sessions :
        /\ ~sessions[S].active
        /\ DOMAIN sessions[S].lastSeen = Devices
        /\ endSession(sessions, S).status = 200
        /\ endSession(sessions, S).store = sessions

\* C11: heartbeat, postMessage and listMessages on a sessionId that is
\* unknown, or whose session is inactive, each answer 404 and leave the whole
\* store as it was (no participant, no lastSeen entry, no message written),
\* whatever the device, the sender and the payload.
C11_DeadSessionIsUntouched ==
    \A S \in DOMAIN sessions \cup {UnknownId} :
        (S \notin DOMAIN sessions \/ ~sessions[S].active) =>
            /\ \A d \in Devices :
                  LET r == heartbeat(sessions, S, d, now) IN
                  r.status = 404 /\ r.store = sessions
            /\ \A sender \in SenderInputs, type \in TypeInputs,
                  encrypted \in PayloadInputs :
                  LET r == postMessage(sessions, S, sender, type, encrypted,
                                       "", nextId)
                  IN  r.status = 404 /\ r.store = sessions
            /\ LET r == listMessages(sessions, S) IN
               r.status = 404 /\ r.store = sessions

\* an inactive session that two devices were seen in and a third was not,
\* whose heartbeat, well-formed post and listing are 404s
C11_Witness ==
    \E S \in DOMAIN sessions, d \in Devices :
        /\ ~sessions[S].active
        /\ Cardinality(DOMAIN sessions[S].lastSeen) = 2
        /\ d \notin DOMAIN sessions[S].lastSeen
        /\ heartbeat(sessions, S, d, now).status = 404
        /\ postMessage(sessions, S, d, "image", GoodPayload, "", nextId).status = 404
        /\ listMessages(sessions, S).status = 404

C13_FreshHeartbeatKeepsSession ==
    \A S \in DOMAIN sessions, d \in Devices :
        LET r == heartbeat(sessions, S, d, now)
            others == DOMAIN sessions[S].lastSeen \ {d}
        IN
        (/\ sessions[S].active
         /\ \/ Cardinality(DOMAIN sessions[S].lastSeen \cup {d}) < 2
            \/ \A e \in others :
                  now - sessions[S].lastSeen[e] <= OFFLINE_TIMEOUT_MS)
        =>  /\ r.status = 200
            /\ r.body = [ok |-> TRUE, ended |-> FALSE]
            /\ r.store[S].active
            /\ r.store[S].messages = sessions[S].messages

\* an active session that holds a message, with a device last seen exactly
\* the offline timeout ago, and another device whose heartbeat keeps it
C13_Witness ==
    \E S \in DOMAIN sessions, d \in Devices :
        /\ sessions[S].active
        /\ sessions[S].messages # <<>>
        /\ \E e \in DOMAIN sessions[S].lastSeen \ {d} :
              now - sessions[S].lastSeen[e] = OFFLINE_TIMEOUT_MS
        /\ ~heartbeat(sessions, S, d, now).body.ended
        /\ heartbeat(sessions, S, d, now).store[S].messages # <<>>

\* sequence s is the beginning of sequence t
IsPrefix(s, t) ==
    Len(s) <= Len(t) /\ \A i \in 1..Len(s) : s[i] = t[i]

\* C14: while a session stays active its messages are append-only.  A
\* well-formed postMessage on an active session answers 201 and leaves the
\* thread one longer, the new message last; a listing answers the whole
\* thread, whose messages are in the order createId() named them; and over a
\* step that leaves the session active the thread is unchanged, or the step
\* is a successful post to that session: so a listing before the step is
\* the beginning of a listing after it.
C14_ThreadIsAppendOnly ==
    /\ [](\A S \in DOMAIN sessions :
            sessions[S].active =>
                /\ listMessages(sessions, S).status = 200
                /\ listMessages(sessions, S).body = sessions[S].messages
                /\ \A i, j \in DOMAIN sessions[S].messages :
                      i < j => sessions[S].messages[i].id < sessions[S].messages[j].id
                /\ \A sender \in SenderInputs, type \in TypeInputs :
                      LET r == postMessage(sessions, S, sender, type,
                                           GoodPayload, "", nextId)
                      IN  /\ r.status = 201
                          /\ r.body.id = nextId
                          /\ r.store[S].messages =
                                Append(sessions[S].messages, r.body))
    /\ [][\A S \in DOMAIN sessions :
            (sessions[S].active /\ sessions'[S].active) =>
                /\ IsPrefix(listMessages(sessions, S).body,
                            listMessages(sessions', S).body)
                /\ \/ sessions'[S].messages = sessions[S].messages
                   \/ /\ Len(sessions'[S].messages) = Len(sessions[S].messages) + 1
                      /\ \E sender \in SenderInputs, type \in TypeInputs :
                            LET r == postMessage(sessions, S, sender, type,
                                                 GoodPayload, "", nextId)
                            IN  r.status = 201 /\ sessions' = r.store]_vars

\* an active session whose thread holds two messages of different types,
\* in the order they were posted
C14_Witness ==
    \E S \in DOMAIN sessions :
        /\ sessions[S].active
        /\ Len(sessions[S].messages) >= 2
        /\ sessions[S].messages[1].type # sessions[S].messages[2].type
        /\ sessions[S].messages[1].id < sessions[S].messages[2].id
        /\ listMessages(sessions, S).body = sessions[S].messages

\* C15: there is no sweeper.  A step in which the clock moves changes no
\* session; a session with a device last seen more than the offline timeout
\* ago is active, is reported active and is counted by activeSessions; and a
\* step takes a session from active to inactive only if it is an endSession
\* of that session or a heartbeat on that session that answers ended=true,
\* at a clock that stands still.
C15_NoSweeper ==
    /\ [](\A S \in DOMAIN sessions, A \in Devices :
            StaleFor(S, A) =>
                /\ status(sessions, S).body.active
                /\ listMessages(sessions, S).status = 200
                /\ activeSessions(sessions) =
                      1 + activeSessions([id \in DOMAIN sessions \ {S} |-> sessions[id]]))
    /\ [][now' # now => sessions' = sessions]_vars
    /\ [][\A S \in DOMAIN sessions :
            (sessions[S].active /\ ~sessions'[S].active) =>
                /\ now' = now
                /\ \/ sessions' = endSession(sessions, S).store
                   \/ \E d \in Devices :
                         LET r == heartbeat(sessions, S, d, now) IN
                         r.body = [ok |-> TRUE, ended |-> TRUE] /\ sessions' = r.store]_vars

\* after the clock has moved, a session is still active and counted although
\* both of its devices were last seen more than the offline timeout ago
C15_Witness ==
    \E S \in DOMAIN sessions :
        /\ now > OFFLINE_TIMEOUT_MS
        /\ Cardinality(sessions[S].participants) = 2
        /\ \A d \in sessions[S].participants : StaleFor(S, d)
        /\ status(sessions, S).body.active
        /\ activeSessions(sessions) = 1

\* the active sessions of the store with this code
ActiveWith(code) ==
    {id \in DOMAIN sessions : sessions[id].code = code /\ sessions[id].active}

\* C16: when active sessions share a code, joinSession(code, d) resolves to
\* the earliest created of them (the one with the least identifier, as
\* identifiers are handed out in creation order).  A join that succeeds
\* answers that session's id, so a later session only when every earlier one
\* with the code is inactive; a join of a device outside the earliest one,
\* when that one is full, answers 403 and changes nothing, also when a later
\* session with the code has a free slot; and a join that succeeds changes no
\* later session.
C16_JoinResolvesToEarliest ==
    \A code \in CodeInputs \ {<<>>}, d \in Devices :
        LET r == joinSession(sessions, code, d, now) IN
        \A first \in ActiveWith(code) :
            (\A other \in ActiveWith(code) : first <= other) =>
                /\ r.status \in {200, 403}
                /\ r.status = 200 =>
                      /\ r.body = [id |-> first]
                      /\ d \in r.store[first].participants
                      /\ \A earlier \in DOMAIN sessions :
                            (earlier < first /\ sessions[earlier].code = code)
                                => ~sessions[earlier].active
                      /\ \A later \in ActiveWith(code) \ {first} :
                            r.store[later] = sessions[later]
                /\ (d \notin sessions[first].participants
                    /\ Cardinality(sessions[first].participants) >= 2)
                      => r.status = 403 /\ r.store = sessions
                /\ (d \in sessions[first].participants
                    \/ Cardinality(sessions[first].participants) < 2)
                      => r.status = 200

\* two active sessions share a code; the earlier is full, the later has a
\* free slot, and the join of a device outside both is a 403
C16_Witness ==
    \E first, later \in ActiveWith(CodeA) :
        /\ first < later
        /\ Cardinality(sessions[first].participants) = 2
        /\ Cardinality(sessions[later].participants) = 1
        /\ "dev3" \notin sessions[first].participants \cup sessions[later].participants
        /\ joinSession(sessions, CodeA, "dev3", now).status = 403

\* C17: a createSession(code, d) with a 6-digit code and a deviceId answers
\* 201 with an identifier no session of the store has (no session ever
\* leaves the store), and adds exactly that session: active, participants
\* {d}, lastSeen[d] the current time, no messages; every session the store
\* held is as it was, also those with the same code.  A createSession with
\* an invalid code or without deviceId answers 400 and adds nothing.
C17_CreateAddsOneFreshSession ==
    \A code \in CodeInputs, d \in DeviceInputs :
        LET r == createSession(sessions, code, d, now, nextId) IN
        IF IsSixDigits(code) /\ d # ""
        THEN /\ r.status = 201
             /\ r.body.id \notin DOMAIN sessions
             /\ DOMAIN r.store = DOMAIN sessions \cup {r.body.id}
             /\ \A S \in DOMAIN sessions : r.store[S] = sessions[S]
             /\ r.store[r.body.id] = [code |-> code,
                                      active |-> TRUE,
                                      messages |-> <<>>,
                                      participants |-> {d},
                                      lastSeen |-> (d :> now)]
        ELSE /\ r.status = 400
             /\ r.store = sessions

\* the store holds an ended and an active session with one code, the later
\* created after the clock moved, and a further create with that code adds
\* a third
C17_Witness ==
    \E S, T \in DOMAIN sessions :
        /\ S < T
        /\ sessions[S].code = CodeA /\ sessions[T].code = CodeA
        /\ ~sessions[S].active /\ sessions[T].active
        /\ sessions[T].lastSeen = ("dev2" :> OFFLINE_TIMEOUT_MS + 1)
        /\ createSession(sessions, CodeA, "dev2", now, nextId).status = 201
        /\ Cardinality(DOMAIN createSession(sessions, CodeA, "dev2", now, nextId).store) = 3

\* C18: in every reachable state every participant of every session has a
\* lastSeen entry in that session.  The join and the heartbeat of a device
\* leave it with an entry whenever they leave it a participant, and both
\* burns empty participants while every lastSeen entry stays.
C18_ParticipantsWereSeen ==
    \A S \in DOMAIN sessions :
        /\ sessions[S].participants \subseteq DOMAIN sessions[S].lastSeen
        /\ LET r == endSession(sessions, S) IN
           /\ r.store[S].participants = {}
           /\ r.store[S].lastSeen = sessions[S].lastSeen
        /\ \A d \in Devices :
              LET j == joinSession(sessions, sessions[S].code, d, now)
                  h == heartbeat(sessions, S, d, now)
              IN
              /\ j.store[S].participants \subseteq DOMAIN j.store[S].lastSeen
              /\ h.store[S].participants \subseteq DOMAIN h.store[S].lastSeen
              /\ (h.status = 200 /\ h.body.ended) =>
                    /\ h.store[S].participants = {}
                    /\ DOMAIN h.store[S].lastSeen = DOMAIN sessions[S].lastSeen \cup {d}
                    /\ \A e \in DOMAIN sessions[S].lastSeen \ {d} :
                          h.store[S].lastSeen[e] = sessions[S].lastSeen[e]

\* an active session whose three participants (one created it, one joined,
\* one only sent a heartbeat) each have an entry, not all of one time, and
\* whose end leaves the three entries to an empty participants set
C18_Witness ==
    \E S \in DOMAIN sessions :
        /\ sessions[S].active
        /\ sessions[S].participants = Devices
        /\ DOMAIN sessions[S].lastSeen = Devices
        /\ \E d, e \in Devices : sessions[S].lastSeen[d] # sessions[S].lastSeen[e]
        /\ endSession(sessions, S).store[S].participants = {}
        /\ DOMAIN endSession(sessions, S).store[S].lastSeen = Devices

\* the sessions of store `before` that store `after` lacks or holds changed
Touched(before, after) ==
    {T \in DOMAIN before : T \notin DOMAIN after \/ after[T] # before[T]}

\* one request on `store` touches no session but S, and removes none
OnlyTouches(store, after, S) ==
    Touched(store, after) \subseteq {S} /\ DOMAIN store \subseteq DOMAIN after

\* every request on `store` touches at most the session it resolves to
FrameOf(store, id) ==
    /\ \A S \in DOMAIN store \cup {UnknownId} :
          /\ OnlyTouches(store, endSession(store, S).store, S)
          /\ OnlyTouches(store, status(store, S).store, UnknownId)
          /\ OnlyTouches(store, listMessages(store, S).store, UnknownId)
          /\ \A d \in Devices :
                OnlyTouches(store, heartbeat(store, S, d, now).store, S)
          /\ \A sender \in SenderInputs, type \in TypeInputs,
                encrypted \in PayloadInputs :
                OnlyTouches(store,
                            postMessage(store, S, sender, type, encrypted,
                                        "", id).store, S)
    /\ \A code \in CodeInputs, d \in DeviceInputs :
          /\ LET r == joinSession(store, code, d, now) IN
             IF r.status = 200
             THEN OnlyTouches(store, r.store, r.body.id)
             ELSE r.store = store
          /\ OnlyTouches(store, createSession(store, code, d, now, id).store,
                         UnknownId)

\* C19: every operation changes at most the one session it resolves to.
\* endSession(S), heartbeat(S, d), postMessage(S, ...) and a joinSession
\* that resolves to S leave every other session (its active flag,
\* participants, lastSeen and messages) as it was, also one with S's code;
\* this holds as well when the other sessions hold a message; and no step
\* removes a session from the store or changes two sessions.
C19_OneSessionPerOperation ==
    /\ [](/\ FrameOf(sessions, nextId)
          /\ \A T \in DOMAIN sessions :
                FrameOf(postMessage(sessions, T, "dev2", "image", GoodPayload,
                                    "", nextId).store, nextId + 1))
    /\ [][/\ DOMAIN sessions \subseteq DOMAIN sessions'
          /\ Cardinality(Touched(sessions, sessions')) <= 1]_vars

\* two active sessions share a code, each with two participants, one of
\* them stale; a heartbeat burns the later session, an end ends it, and a
\* join resolves to the earlier: each leaves the other session as it was
C19_Witness ==
    \E S, T \in DOMAIN sessions :
        /\ S < T
        /\ sessions[S].code = sessions[T].code
        /\ sessions[S].active /\ sessions[T].active
        /\ Cardinality(sessions[S].participants) = 2
        /\ Cardinality(sessions[T].participants) = 2
        /\ StaleFor(T, "dev2")
        /\ LET r == heartbeat(sessions, T, "dev2", now) IN
           r.body.ended /\ ~r.store[T].active /\ r.store[S] = sessions[S]
        /\ Touched(sessions, endSession(sessions, T).store) = {T}
        /\ Touched(sessions, joinSession(sessions, sessions[S].code, "dev3", now).store) = {}
        /\ Touched(sessions, heartbeat(sessions, S, "dev3", now).store) = {S}

\* C20: postMessage and listMessages record no contact and check no
\* membership.  A well-formed postMessage on an active session answers 201
\* for every senderId, participant or not or missing, and leaves the
\* session's participants, lastSeen and active flag as they were, as does a
\* listing; so after a post by a device last seen more than the offline
\* timeout ago, the heartbeat of another device still answers ended=true and
\* burns the session, the posted message with it.
C20_PostIsNoHeartbeat ==
    \A S \in DOMAIN sessions :
        sessions[S].active =>
            /\ listMessages(sessions, S).store = sessions
            /\ \A sender \in DeviceInputs, type \in TypeInputs :
                  LET r == postMessage(sessions, S, sender, type, GoodPayload,
                                       "", nextId)
                  IN
                  /\ r.status = 201
                  /\ r.store[S].participants = sessions[S].participants
                  /\ r.store[S].lastSeen = sessions[S].lastSeen
                  /\ r.store[S].active
                  /\ \A A \in Devices :
                        (StaleFor(S, A) /\ sender # A /\ sender \in DOMAIN sessions[S].lastSeen
                         /\ now - sessions[S].lastSeen[sender] > OFFLINE_TIMEOUT_MS)
                        =>  LET h == heartbeat(r.store, S, A, now) IN
                            /\ h.body = [ok |-> TRUE, ended |-> TRUE]
                            /\ ~h.store[S].active
                            /\ h.store[S].messages = <<>>

\* an active session that holds a message of dev1, last seen more than the
\* offline timeout ago; dev1 posts once more, and the heartbeat of its peer,
\* seen since, burns the session
C20_Witness ==
    \E S \in DOMAIN sessions :
        /\ sessions[S].active
        /\ sessions[S].participants = {"dev1", "dev2"}
        /\ now - sessions[S].lastSeen["dev1"] > OFFLINE_TIMEOUT_MS
        /\ sessions[S].lastSeen["dev2"] = now
        /\ Len(sessions[S].messages) = 1
        /\ sessions[S].messages[1].senderId = "dev1"
        /\ LET r == postMessage(sessions, S, "dev1", "video", GoodPayload, "", nextId) IN
           /\ r.status = 201
           /\ heartbeat(r.store, S, "dev2", now).body.ended

====
